---------------------------- MODULE Spec2Model ----------------------------
(***************************************************************************)
(* Model of the HTTP client core of terraform-provider-zenfra:             *)
(* internal/zenfraclient (client.go: NewClient, doRequest, doJSON,         *)
(* checkResponse; retry.go: isRetryableStatus, retryDelay,                 *)
(* sleepWithContext; errors.go).                                           *)
(***************************************************************************)
EXTENDS Integers, Sequences, FiniteSets, TLC

(***************************************************************************)
(* Go's int64 / time.Duration.  TLC's integers are 32 bits wide, so a      *)
(* 64-bit value is kept as 8 little-endian limbs of 8 bits in two's        *)
(* complement; every operation wraps modulo 2^64 as Go's does.             *)
(***************************************************************************)
LimbBase == 2 ^ 8

\* The int64 of a TLC integer 0 <= n < 2^31.
I64(n) ==
    <<n % LimbBase, (n \div LimbBase) % LimbBase, (n \div (LimbBase ^ 2)) % LimbBase,
      n \div (LimbBase ^ 3), 0, 0, 0, 0>>

\* a + b + carry modulo 2^64 (the definitions are unrolled limb by limb:
\* the carry of one limb enters the next).
AddCarry64(a, b, carry) ==
    LET
        s1 == a[1] + b[1] + carry
        s2 == a[2] + b[2] + (s1 \div LimbBase)
        s3 == a[3] + b[3] + (s2 \div LimbBase)
        s4 == a[4] + b[4] + (s3 \div LimbBase)
        s5 == a[5] + b[5] + (s4 \div LimbBase)
        s6 == a[6] + b[6] + (s5 \div LimbBase)
        s7 == a[7] + b[7] + (s6 \div LimbBase)
        s8 == a[8] + b[8] + (s7 \div LimbBase)
    IN  <<s1 % LimbBase, s2 % LimbBase, s3 % LimbBase, s4 % LimbBase, s5 % LimbBase, s6 % LimbBase, s7 % LimbBase, s8 % LimbBase>>

Add64(a, b) == AddCarry64(a, b, 0)

\* The bitwise complement.
Not64(a) == <<LimbBase - 1 - a[1], LimbBase - 1 - a[2], LimbBase - 1 - a[3], LimbBase - 1 - a[4], LimbBase - 1 - a[5], LimbBase - 1 - a[6], LimbBase - 1 - a[7], LimbBase - 1 - a[8]>>

Zero64 == <<0, 0, 0, 0, 0, 0, 0, 0>>

Neg64(a) == AddCarry64(Not64(a), Zero64, 1)

\* a * b modulo 2^64: Go's wrapping multiplication (column k sums the limb
\* products of weight LimbBase^(k-1) and the carry of column k-1).
Mul64(a, b) ==
    LET
        c1 == a[1] * b[1]
        c2 == a[1] * b[2] + a[2] * b[1]
              + (c1 \div LimbBase)
        c3 == a[1] * b[3] + a[2] * b[2] + a[3] * b[1]
              + (c2 \div LimbBase)
        c4 == a[1] * b[4] + a[2] * b[3] + a[3] * b[2] + a[4] * b[1]
              + (c3 \div LimbBase)
        c5 == a[1] * b[5] + a[2] * b[4] + a[3] * b[3] + a[4] * b[2] + a[5] * b[1]
              + (c4 \div LimbBase)
        c6 == a[1] * b[6] + a[2] * b[5] + a[3] * b[4] + a[4] * b[3] + a[5] * b[2] + a[6] * b[1]
              + (c5 \div LimbBase)
        c7 == a[1] * b[7] + a[2] * b[6] + a[3] * b[5] + a[4] * b[4] + a[5] * b[3] + a[6] * b[2] + a[7] * b[1]
              + (c6 \div LimbBase)
        c8 == a[1] * b[8] + a[2] * b[7] + a[3] * b[6] + a[4] * b[5] + a[5] * b[4] + a[6] * b[3] + a[7] * b[2] + a[8] * b[1]
              + (c7 \div LimbBase)
    IN  <<c1 % LimbBase, c2 % LimbBase, c3 % LimbBase, c4 % LimbBase, c5 % LimbBase, c6 % LimbBase, c7 % LimbBase, c8 % LimbBase>>

RECURSIVE ULessFrom(_, _, _)
ULessFrom(a, b, i) ==
    IF i = 0 THEN FALSE
    ELSE IF a[i] # b[i] THEN a[i] < b[i]
    ELSE ULessFrom(a, b, i - 1)

\* Unsigned a < b (uint64).
ULess(a, b) == ULessFrom(a, b, 8)

\* Signed a < b (int64): the sign bits decide when they differ.
Less64(a, b) ==
    IF (a[8] >= LimbBase \div 2) # (b[8] >= LimbBase \div 2)
    THEN a[8] >= LimbBase \div 2
    ELSE ULess(a, b)

LessEq64(a, b) == ~Less64(b, a)

\* Arithmetic shift right by one bit: the sign bit is kept.
Sar1(a) ==
    <<(a[1] \div 2) + (a[2] % 2) * (LimbBase \div 2),
      (a[2] \div 2) + (a[3] % 2) * (LimbBase \div 2),
      (a[3] \div 2) + (a[4] % 2) * (LimbBase \div 2),
      (a[4] \div 2) + (a[5] % 2) * (LimbBase \div 2),
      (a[5] \div 2) + (a[6] % 2) * (LimbBase \div 2),
      (a[6] \div 2) + (a[7] % 2) * (LimbBase \div 2),
      (a[7] \div 2) + (a[8] % 2) * (LimbBase \div 2),
      (a[8] \div 2) + (a[8] \div (LimbBase \div 2)) * (LimbBase \div 2)>>

\* Go's a / 2 on int64, the quotient truncated toward zero: the sign bit is
\* added before the arithmetic shift.
Quo2(a) == Sar1(AddCarry64(a, Zero64, a[8] \div (LimbBase \div 2)))

\* 2^k for 0 <= k <= 63 (k = 63 is the bit pattern of math.MinInt64).
Bit64(k) ==
    LET limb(i) == IF i = k \div 8 THEN 2 ^ (k % 8) ELSE 0
    IN  <<limb(0), limb(1), limb(2), limb(3), limb(4), limb(5), limb(6), limb(7)>>

MinInt64 == <<0, 0, 0, 0, 0, 0, 0, LimbBase \div 2>>

MaxInt64 ==
    <<LimbBase - 1, LimbBase - 1, LimbBase - 1, LimbBase - 1,
      LimbBase - 1, LimbBase - 1, LimbBase - 1, LimbBase \div 2 - 1>>

MaxUint64 == Not64(Zero64)

\* time.Millisecond, time.Second in nanoseconds.
Millisecond == I64(1000000)

Second == I64(1000000000)

Seconds(n) == Mul64(I64(n), Second)


(***************************************************************************)
(* Strings are sequences of one-character strings, so that parsing is      *)
(* done character by character as strconv does it.                         *)
(***************************************************************************)
DigitChars == <<"0", "1", "2", "3", "4", "5", "6", "7", "8", "9">>

IsDigit(c) == \E i \in 1..Len(DigitChars) : DigitChars[i] = c

DigitVal(c) == (CHOOSE i \in 1..Len(DigitChars) : DigitChars[i] = c) - 1

RECURSIVE DecStr(_)
\* The decimal text of a natural number, as fmt's %d prints it.
DecStr(n) ==
    IF n < 10 THEN <<DigitChars[n + 1]>>
    ELSE DecStr(n \div 10) \o <<DigitChars[(n % 10) + 1]>>

\* (1<<64 - 1) / 10 + 1 = 1844674407370955162: past this cutoff n * 10 overflows.
ParseUintCutoff == Add64(Mul64(I64(1844674407), I64(1000000000)), I64(370955162))

RECURSIVE ParseUintFrom(_, _, _), ParseUintDigit(_, _, _)
\* strconv.ParseUint(s, 10, 64) from digit i on, n the value so far.
ParseUintFrom(s, i, n) ==
    IF i > Len(s) THEN [err |-> FALSE, val |-> n]
    ELSE IF ~IsDigit(s[i]) THEN [err |-> TRUE, val |-> Zero64]
    ELSE IF ~ULess(n, ParseUintCutoff) THEN [err |-> TRUE, val |-> MaxUint64]
    ELSE ParseUintDigit(s, i, Mul64(n, I64(10)))

\* n10 is n * 10: the digit is added, and a sum that wrapped is out of range.
ParseUintDigit(s, i, n10) ==
    IF ULess(Add64(n10, I64(DigitVal(s[i]))), n10) THEN [err |-> TRUE, val |-> MaxUint64]
    ELSE ParseUintFrom(s, i + 1, Add64(n10, I64(DigitVal(s[i]))))

\* strconv.Atoi on a 64-bit build (ParseInt(s, 10, 0); the fast path for
\* short strings computes the same): an optional sign and at least one
\* decimal digit, the value within int64; anything else is an error.
ParseInt(neg, digits, un) ==
    IF Len(digits) = 0 \/ un.err THEN [err |-> TRUE, val |-> Zero64]
    ELSE IF ~neg /\ ~ULess(un.val, MinInt64) THEN [err |-> TRUE, val |-> MaxInt64]
    ELSE IF neg /\ ULess(MinInt64, un.val) THEN [err |-> TRUE, val |-> MinInt64]
    ELSE [err |-> FALSE, val |-> IF neg THEN Neg64(un.val) ELSE un.val]

\* The digits of s after its optional sign.
Unsigned(s) == IF Len(s) > 0 /\ s[1] \in {"+", "-"} THEN SubSeq(s, 2, Len(s)) ELSE s

Atoi(s) ==
    ParseInt(Len(s) > 0 /\ s[1] = "-", Unsigned(s), ParseUintFrom(Unsigned(s), 1, Zero64))

(***************************************************************************)
(* retry.go                                                                *)
(***************************************************************************)
defaultBaseDelay == Mul64(I64(500), Millisecond)

defaultMaxDelay == Seconds(30)

defaultMaxRetries == 3

defaultRetryConfig ==
    [baseDelay  |-> defaultBaseDelay,
     maxDelay   |-> defaultMaxDelay,
     maxRetries |-> defaultMaxRetries]

\* isRetryableStatus with every 5xx status taken for transient.
isRetryableStatusAny5xx(statusCode) == statusCode = 429 \/ statusCode >= 500

\* isRetryableStatus without 504 Gateway Timeout.
isRetryableStatusNo504(statusCode) == statusCode \in {429, 502, 503}

isRetryableStatus(statusCode) == statusCode \in {429, 502, 503, 504}

\* A nil *http.Response: the resp argument after a transport error.
NoResponse == [nil |-> TRUE]

\* resp.Header.Get: the empty string when the header is absent.
HeaderGet(resp, name) == IF name \in DOMAIN resp.Header THEN resp.Header[name] ELSE <<>>

\* time.Duration(math.Pow(2, float64(attempt))): exact up to 2^62; beyond
\* int64 the Go specification leaves the converted value to the
\* implementation: amd64 yields math.MinInt64, arm64 saturates.
PowDuration(attempt, arch) ==
    IF attempt <= 62 THEN Bit64(attempt)
    ELSE IF arch = "amd64" THEN MinInt64 ELSE MaxInt64

\* rand.Int64N(n) for n > 0: a value of [0, n); draw names which one.
Int64N(n, draw) ==
    CASE draw = "min" -> Zero64
      [] draw = "mid" -> Quo2(n)
      [] draw = "max" -> AddCarry64(n, MaxUint64, 0)

\* if delay > cfg.maxDelay { delay = cfg.maxDelay }
CapDelay(delay, maxDelay) == IF Less64(maxDelay, delay) THEN maxDelay ELSE delay

\* The wait a usable Retry-After: seconds asks for.
RetryAfterDelay(cfg, seconds) == CapDelay(Mul64(seconds, Second), cfg.maxDelay)

\* jitter := rand.Int64N(int64(delay) / 2), which panics unless its argument
\* is positive; delay = delay/2 + delay/4 + jitter.
AddJitter(delay, draw) ==
    IF ~Less64(Zero64, Quo2(delay)) THEN [panic |-> TRUE, delay |-> Zero64]
    ELSE [panic |-> FALSE,
          delay |-> Add64(Add64(Quo2(delay), Quo2(Quo2(delay))),
                          Int64N(Quo2(delay), draw))]

\* Exponential backoff: base * 2^attempt, capped, with jitter.
BackoffDelay(cfg, attempt, arch, draw) ==
    AddJitter(CapDelay(Mul64(cfg.baseDelay, PowDuration(attempt, arch)), cfg.maxDelay),
              draw)

\* The Retry-After branch is taken for a header that is present and parses
\* to a positive int.
HonoursRetryAfter(retryAfter, parsed) ==
    retryAfter # <<>> /\ ~parsed.err /\ Less64(Zero64, parsed.val)

RetryAfterOf(resp) ==
    IF resp # NoResponse /\ resp.StatusCode = 429
    THEN HeaderGet(resp, "Retry-After") ELSE <<>>

\* retryDelay once the header is read and parsed.
retryDelayParsed(cfg, attempt, arch, draw, retryAfter, parsed) ==
    IF HonoursRetryAfter(retryAfter, parsed)
    THEN [panic |-> FALSE, delay |-> RetryAfterDelay(cfg, parsed.val)]
    ELSE BackoffDelay(cfg, attempt, arch, draw)

\* retryDelay: [panic |-> TRUE] when rand.Int64N is handed n <= 0.
retryDelay(cfg, attempt, resp, arch, draw) ==
    retryDelayParsed(cfg, attempt, arch, draw, RetryAfterOf(resp), Atoi(RetryAfterOf(resp)))

(***************************************************************************)
(* errors.go: error values.  kind names the Go type (or, for errors that   *)
(* are no API error, what produced them); wrap lists the prefixes that     *)
(* fmt.Errorf("...: %w") put around the error, outermost first.            *)
(***************************************************************************)
Nil == [kind |-> "nil"]

ErrorValue(kind, status, message, requestID, fields) ==
    [kind |-> kind, wrap |-> <<>>, StatusCode |-> status, Message |-> message,
     RequestID |-> requestID, Fields |-> fields]

\* A nil map[string]string.
NoFields == <<>>

\* fmt.Errorf(prefix + ": %w", err)
Wrap(prefix, err) == [err EXCEPT !.wrap = <<prefix>> \o @]

\* An error that is no *APIError: a transport error or ctx.Err().
PlainError(text) == ErrorValue("error", 0, text, <<>>, NoFields)

\* A type assertion on the error itself, which sees no wrapped error.
ErrorsAsNoUnwrap(err, kind) == err # Nil /\ err.wrap = <<>> /\ err.kind = kind

\* errors.As(err, &target) for a target of the given type: the chain of %w
\* wrappers is walked down to the error itself.
ErrorsAs(err, kind) == err # Nil /\ err.kind = kind

IsNotFound(err) == ErrorsAs(err, "NotFoundError")

IsConflict(err) == ErrorsAs(err, "ConflictError")

IsUnauthorized(err) == ErrorsAs(err, "UnauthorizedError")

IsForbidden(err) == ErrorsAs(err, "ForbiddenError")

(***************************************************************************)
(* client.go: checkResponse                                                *)
(***************************************************************************)
\* http.StatusText for the status codes of the model; "" for an unknown code.
StatusText(code) ==
    CASE code = 101 -> "Switching Protocols"
      [] code = 200 -> "OK"
      [] code = 201 -> "Created"
      [] code = 204 -> "No Content"
      [] code = 302 -> "Found"
      [] code = 400 -> "Bad Request"
      [] code = 401 -> "Unauthorized"
      [] code = 403 -> "Forbidden"
      [] code = 404 -> "Not Found"
      [] code = 409 -> "Conflict"
      [] code = 418 -> "I'm a teapot"
      [] code = 422 -> "Unprocessable Entity"
      [] code = 429 -> "Too Many Requests"
      [] code = 500 -> "Internal Server Error"
      [] code = 502 -> "Bad Gateway"
      [] code = 503 -> "Service Unavailable"
      [] code = 504 -> "Gateway Timeout"
      [] OTHER -> ""

\* json.Unmarshal(bodyBytes, &errBody).  A body is abstracted to what the
\* decoder makes of it: json = "valid" (an object whose members have the
\* expected types; absent members decode to "" and to a nil map), "syntax"
\* (no JSON object: nothing is decoded) or "type" (an object with a member
\* of the wrong type, as {"error": 5, "message": "ignored", ...}: an error is
\* returned and the other members are decoded).
UnmarshalErrBody(body) ==
    IF body.json = "syntax"
    THEN [ok |-> FALSE, Error |-> "", Message |-> "", Fields |-> NoFields]
    ELSE [ok |-> body.json = "valid", Error |-> body.error,
          Message |-> body.message, Fields |-> body.fields]

\* The request ID read from a header the API does not send.
RequestIDOfOtherHeader(resp) == HeaderGet(resp, "Request-ID")

\* RequestID: resp.Header.Get("X-Request-ID")
RequestIDOf(resp) == HeaderGet(resp, "X-Request-ID")

\* checkResponse without its switch on the status code.
checkResponseUntyped(resp) ==
    IF resp.StatusCode >= 200 /\ resp.StatusCode < 300 THEN Nil
    ELSE ErrorValue("APIError", resp.StatusCode, StatusText(resp.StatusCode),
                    RequestIDOf(resp), NoFields)

checkResponse(resp) ==
    IF resp.StatusCode >= 200 /\ resp.StatusCode < 300 THEN Nil
    ELSE LET errBody == UnmarshalErrBody(resp.Body)
             parsed  == IF ~errBody.ok THEN ""
                        ELSE IF errBody.Message # "" THEN errBody.Message
                        ELSE IF errBody.Error # "" THEN errBody.Error
                        ELSE ""
             message == IF parsed = "" THEN StatusText(resp.StatusCode) ELSE parsed
             apiErr(kind, fields) ==
                 ErrorValue(kind, resp.StatusCode, message,
                            RequestIDOf(resp), fields)
         IN  CASE resp.StatusCode = 404 -> apiErr("NotFoundError", NoFields)
               [] resp.StatusCode = 409 -> apiErr("ConflictError", NoFields)
               [] resp.StatusCode = 401 -> apiErr("UnauthorizedError", NoFields)
               [] resp.StatusCode = 403 -> apiErr("ForbiddenError", NoFields)
               [] resp.StatusCode \in {400, 422} -> apiErr("ValidationError", errBody.Fields)
               [] OTHER -> apiErr("APIError", NoFields)

(***************************************************************************)
(* client.go: NewClient                                                    *)
(***************************************************************************)
defaultTimeout == Seconds(30)

defaultUserAgent == "terraform-provider-zenfra/0.1.0"

\* A TrimRight that removes one trailing character at most.
TrimRightOnce(s, c) ==
    IF Len(s) > 0 /\ s[Len(s)] = c THEN SubSeq(s, 1, Len(s) - 1) ELSE s

RECURSIVE TrimRight(_, _)
\* strings.TrimRight(s, cutset) for a one-character cutset.
TrimRight(s, c) ==
    IF Len(s) > 0 /\ s[Len(s)] = c THEN TrimRight(SubSeq(s, 1, Len(s) - 1), c) ELSE s

\* The validation of NewClient without the check of the token.
ConfigErrorEndpointOnly(cfg) ==
    IF cfg.Endpoint = <<>> THEN PlainError("endpoint is required") ELSE Nil

\* The validation NewClient starts with: the error it returns, if any.
ConfigError(cfg) ==
    IF cfg.Endpoint = <<>> THEN PlainError("endpoint is required")
    ELSE IF cfg.APIToken = "" THEN PlainError("api_token is required")
    ELSE Nil

\* A NewClient that takes MaxRetries as given, set or not.
NewClientNoRetryDefault(cfg) ==
    IF ConfigError(cfg) # Nil THEN [client |-> Nil, err |-> ConfigError(cfg)]
    ELSE [client |->
            [baseURL   |-> TrimRight(cfg.Endpoint, "/"),
             apiToken  |-> cfg.APIToken,
             userAgent |-> IF cfg.UserAgent = "" THEN defaultUserAgent ELSE cfg.UserAgent,
             timeout   |-> IF cfg.Timeout = Zero64 THEN defaultTimeout ELSE cfg.Timeout,
             retry     |-> [defaultRetryConfig EXCEPT !.maxRetries = cfg.MaxRetries]],
          err |-> Nil]

NewClient(cfg) ==
    IF ConfigError(cfg) # Nil THEN [client |-> Nil, err |-> ConfigError(cfg)]
    ELSE [client |->
            [baseURL   |-> TrimRight(cfg.Endpoint, "/"),
             apiToken  |-> cfg.APIToken,
             userAgent |-> IF cfg.UserAgent = "" THEN defaultUserAgent ELSE cfg.UserAgent,
             timeout   |-> IF cfg.Timeout = Zero64 THEN defaultTimeout ELSE cfg.Timeout,
             retry     |-> IF cfg.MaxRetries > 0
                           THEN [defaultRetryConfig EXCEPT !.maxRetries = cfg.MaxRetries]
                           ELSE defaultRetryConfig],
          err |-> Nil]

(***************************************************************************)
(* Bounds and the inputs drawn from them.                                  *)
(***************************************************************************)
\* The largest ClientConfig.MaxRetries a client of the call model is built with.
MaxRetriesCfg == 2

\* The largest attempt index retryDelay is applied to on its own.
MaxAttemptIndex == 64

\* A configuration with the required options only.
DefaultConfig ==
    [Endpoint |-> <<"h">>, APIToken |-> "tok", UserAgent |-> "",
     Timeout |-> Zero64, MaxRetries |-> 0]

\* The configurations the client of the call model is built from: one for
\* each MaxRetries, the endpoint ending in as many slashes, the user agent
\* left to its default for every other one.
ClientConfigs ==
    {[Endpoint |-> <<"h">> \o [i \in 1..m |-> "/"], APIToken |-> "tok",
      UserAgent |-> IF m % 2 = 0 THEN "" ELSE "ua/1",
      Timeout |-> Zero64, MaxRetries |-> m] : m \in 0..MaxRetriesCfg}

\* Values of a Retry-After header (<<>>: no header).
RetryAfterFew ==
    {<<>>, <<"2">>, <<"3", "1">>, <<"a">>, DecStr(9223) \o DecStr(372037)}

RetryAfterAll ==
    RetryAfterFew \cup
    {<<"1">>, <<"0">>, <<"3", "0">>, <<"+", "5">>, <<"-", "5">>, <<"1", ".", "5">>,
     DecStr(9223) \o DecStr(372036),
     DecStr(18446) \o DecStr(744074),
     DecStr(922337203) \o DecStr(685477580) \o <<"7">>,
     DecStr(922337203) \o DecStr(685477580) \o <<"8">>}

Header(retryAfter, requestID) ==
    [n \in (IF retryAfter = <<>> THEN {} ELSE {"Retry-After"})
           \cup (IF requestID = <<>> THEN {} ELSE {"X-Request-ID"}) |->
        IF n = "Retry-After" THEN retryAfter ELSE requestID]

Bodies ==
    {[json |-> "syntax", error |-> "", message |-> "", fields |-> NoFields],
     [json |-> "valid", error |-> "", message |-> "", fields |-> NoFields],
     [json |-> "valid", error |-> "not_found", message |-> "", fields |-> NoFields],
     [json |-> "valid", error |-> "validation_error", message |-> "name is required",
      fields |-> [f \in {"name"} |-> "required"]],
     [json |-> "type", error |-> "", message |-> "ignored",
      fields |-> [f \in {"name"} |-> "required"]]}

EmptyBody == [json |-> "syntax", error |-> "", message |-> "", fields |-> NoFields]

RetryableStatuses == {429, 502, 503, 504}

FinalStatuses == {101, 200, 201, 204, 302, 400, 401, 403, 404, 409, 418, 422, 500}

\* What the server can answer to one attempt of the call model.
Responses ==
    {[StatusCode |-> st, Header |-> Header(<<>>, id), Body |-> b] :
        st \in FinalStatuses, id \in {<<>>, <<"r", "1">>}, b \in Bodies}
    \cup {[StatusCode |-> 429, Header |-> Header(ra, <<>>), Body |-> EmptyBody] :
            ra \in RetryAfterFew}
    \cup {[StatusCode |-> st, Header |-> Header(ra, <<>>), Body |-> EmptyBody] :
            st \in {503}, ra \in {<<>>, <<"2">>}}
    \cup {[StatusCode |-> st, Header |-> Header(<<>>, <<>>), Body |-> EmptyBody] :
            st \in {502, 504}}

\* The responses retryDelay can be handed: nil after a transport error, or a
\* response with a retryable status.
DelayResponses ==
    {NoResponse}
    \cup {[StatusCode |-> st, Header |-> Header(ra, <<>>), Body |-> EmptyBody] :
            st \in RetryableStatuses, ra \in RetryAfterAll}

\* The responses checkResponse is applied to on its own.
CheckResponses ==
    {[StatusCode |-> st, Header |-> Header(<<>>, id), Body |-> b] :
        st \in FinalStatuses \cup RetryableStatuses, id \in {<<>>, <<"r", "1">>}, b \in Bodies}

\* The number of goroutines that call the one client at the same time.
NumCalls == 2

CallIDs == 1..NumCalls

\* The operation goroutine i calls.
OpOf(i) ==
    CASE i % 3 = 1 -> "CreateSpace"
      [] i % 3 = 2 -> "GetSpace"
      [] OTHER -> "DeleteSpace"

\* What httpClient.Do returns to an attempt of one of these calls: a
\* response with a status and a JSON body, or a network failure.
ConcOutcomes ==
    {[resp |-> [StatusCode |-> st, Header |-> Header(<<>>, <<>>),
                Body |-> [json |-> "valid", error |-> "", message |-> "",
                          fields |-> NoFields]],
      err |-> Nil] : st \in {200, 404, 503}}
    \cup {[resp |-> NoResponse, err |-> PlainError("net")]}

Draws == {"min", "mid", "max"}

Archs == {"amd64", "arm64"}

\* The client operations of the call model: one through doJSON with a result
\* to decode, one through doRequest and checkResponse.
Ops == {"CreateSpace", "GetSpace", "DeleteSpace"}

OpPrefix(o) ==
    CASE o = "CreateSpace" -> "create space"
      [] o = "GetSpace" -> "get space"
      [] o = "DeleteSpace" -> "delete space"

OpMethod(o) ==
    CASE o = "CreateSpace" -> "POST"
      [] o = "GetSpace" -> "GET"
      [] o = "DeleteSpace" -> "DELETE"

\* "/api/v1/spaces" and the identifier the caller gives.
SpacesPath == <<"/", "a", "p", "i", "/", "v", "1", "/", "s", "p", "a", "c", "e", "s">>

SpaceID == <<"s", "1">>

OpPath(o) == IF o = "CreateSpace" THEN SpacesPath ELSE SpacesPath \o <<"/">> \o SpaceID

\* Whether the operation hands doRequest a body.
OpHasBody(o) == o = "CreateSpace"

(***************************************************************************)
(* State.  One call of a client operation on one client.                   *)
(***************************************************************************)
VARIABLES
    client,     \* the *Client NewClient returned
    config,     \* the ClientConfig NewClient was given (observer's copy)
    arch,       \* the build's architecture
    ctxErr,     \* ctx.Err(): "nil" until the context is cancelled or expires
    pc,         \* "idle", "attempting" (in httpClient.Do), "sleeping" (in the
                \* select of sleepWithContext), "returned", "panicked"
    op,         \* the client operation called
    attempt,    \* doRequest's loop variable
    req,        \* doRequest's req: the request of the latest attempt
    lastResp,   \* doRequest's lastResp
    lastErr,    \* doRequest's lastErr
    delay,      \* the duration handed to sleepWithContext
    woken,      \* the case the select has committed to: "none", "ctx", "timer"
    ret,        \* what doRequest returned: [resp, err]
    callErr,    \* the error the client operation returned
    history,    \* the outcome of each httpClient.Do so far (observer's log)
    doCalls,    \* the number of calls of httpClient.Do so far (observer's count)
    waits,      \* the number of calls of sleepWithContext so far (observer's count)
    doResult,   \* what the latest httpClient.Do returned (observer's copy)
    bodies,     \* the body of each response received so far: its response's
                \* status and whether it is open (observer's log)
    calls,      \* the calls goroutines make on the client at the same time:
                \* for each one the locals of its doRequest and its results
    fnIn,       \* a function applied on its own: its name and arguments
    fnOut       \* and its result

callVars ==
    <<client, config, ctxErr, pc, op, attempt, req, lastResp, lastErr, delay, woken,
      ret, callErr, history, doCalls, waits, doResult, bodies>>

vars == <<callVars, calls, arch, fnIn, fnOut>>

NoReturn == [resp |-> NoResponse, err |-> Nil]

NoRequest == [nil |-> TRUE]

\* No plan, and no Terraform state set.
NoPlan == [stack_id |-> <<>>, bundle_id |-> <<>>]

NoState == [nil |-> TRUE]

NoFnCall ==
    [fn |-> "none", attempt |-> 0, resp |-> NoResponse, draw |-> "min", cfg |-> DefaultConfig, plan |-> NoPlan, id |-> <<>>]

NoFnResult ==
    [done |-> FALSE, panic |-> FALSE, delay |-> Zero64, err |-> Nil, client |-> Nil,
     diags |-> <<>>, state |-> NoState]

IdleCall ==
    /\ ctxErr = "nil"
    /\ pc = "idle"
    /\ op = "GetSpace"
    /\ attempt = 0
    /\ req = NoRequest
    /\ lastResp = NoResponse
    /\ lastErr = Nil
    /\ delay = Zero64
    /\ woken = "none"
    /\ ret = NoReturn
    /\ callErr = Nil
    /\ history = <<>>
    /\ doCalls = 0
    /\ waits = 0
    /\ doResult = NoReturn
    /\ bodies = <<>>

\* The locals of a call a goroutine has not started yet; seen is the
\* observer's log of what httpClient.Do returned to this call.
IdleGoCall ==
    [pc |-> "idle", attempt |-> 0, lastResp |-> NoResponse, lastErr |-> Nil,
     ret |-> NoReturn, callErr |-> Nil, seen |-> <<>>, doCalls |-> 0]

Init ==
    /\ \E cfg \in ClientConfigs : config = cfg /\ client = NewClient(cfg).client
    /\ arch = "amd64"
    /\ IdleCall
    /\ calls = [i \in CallIDs |-> IdleGoCall]
    /\ fnIn = NoFnCall
    /\ fnOut = NoFnResult

(***************************************************************************)
(* client.go: the client operations, doJSON and doRequest.  A step runs    *)
(* the code from one point where the call blocks (httpClient.Do, the       *)
(* select of sleepWithContext) to the next, or to its return.              *)
(***************************************************************************)
\* What the client operation makes of doRequest's return value r: doJSON (or
\* the delete operation) checks the response and decodes it, and the
\* operation wraps any error with its prefix.
WrapIfError(prefix, err) == IF err = Nil THEN Nil ELSE Wrap(prefix, err)

\* doJSON after doRequest returned resp: checked is checkResponse(resp).
DecodeResponse(o, resp, checked) ==
    IF checked # Nil THEN checked
    ELSE IF o \in {"CreateSpace", "GetSpace"} /\ resp.Body.json # "valid"
    THEN PlainError("unmarshaling response")
    ELSE Nil

OperationError(o, r) ==
    WrapIfError(OpPrefix(o),
                IF r.err # Nil THEN r.err
                ELSE DecodeResponse(o, r.resp, checkResponse(r.resp)))

\* doRequest returns r: its locals are gone, the operation finishes.
Return(o, r) ==
    /\ pc' = "returned"
    /\ ret' = r
    /\ callErr' = OperationError(o, r)
    /\ lastResp' = NoResponse
    /\ lastErr' = Nil
    /\ delay' = Zero64
    /\ woken' = "none"

\* sleepWithContext(ctx, d) reaches its select.  A context that is already
\* done makes the ctx case ready at once; the timer case is ready at once
\* only for d <= 0, and of two ready cases the select takes either (pick).
EnterSleep(d, pick) ==
    /\ pc' = "sleeping"
    /\ delay' = d
    /\ waits' = waits + 1
    /\ woken' = IF ctxErr = "nil" THEN "none"
                ELSE IF LessEq64(d, Zero64) THEN pick
                ELSE "ctx"
    /\ UNCHANGED <<ret, callErr>>

\* sleepWithContext(ctx, retryDelay(c.retry, attempt, resp)); retryDelay may
\* panic, which ends the goroutine.
SleepFor(d, pick) ==
    IF d.panic
    THEN /\ pc' = "panicked"
         /\ UNCHANGED <<delay, waits, woken, ret, callErr>>
    ELSE EnterSleep(d.delay, pick)

Sleep(resp, draw, pick) ==
    SleepFor(retryDelay(client.retry, attempt, resp, arch, draw), pick)

\* The headers of every attempt but the first left unset.
RequestHeaderFirstOnly(c, hasBody, a) ==
    [n \in (IF a > 0 THEN {}
            ELSE {"Authorization", "User-Agent", "Accept"}
                 \cup (IF hasBody THEN {"Content-Type"} ELSE {})) |->
        CASE n = "Authorization" -> <<"Bearer ", c.apiToken>>
          [] n = "User-Agent" -> c.userAgent
          [] OTHER -> "application/json"]

\* The headers doRequest sets on the request of attempt a: "Bearer " and the
\* token are kept as the two operands of the concatenation.
RequestHeader(c, hasBody, a) ==
    [n \in {"Authorization", "User-Agent", "Accept"}
            \cup (IF hasBody THEN {"Content-Type"} ELSE {}) |->
        CASE n = "Authorization" -> <<"Bearer ", c.apiToken>>
          [] n = "User-Agent" -> c.userAgent
          [] OTHER -> "application/json"]

\* The request doRequest builds for attempt a of operation o.
NewRequest(c, o, a) ==
    [Method |-> OpMethod(o),
     URL    |-> c.baseURL \o OpPath(o),
     Header |-> RequestHeader(c, OpHasBody(o), a),
     Body   |-> OpHasBody(o)]

\* The error of an attempt that failed at the transport level.
TransportError(cause) == Wrap("executing request", PlainError(cause))

\* One pass of the loop of doRequest for attempt index a, up to
\* httpClient.Do.  With a context that is already done Do fails without
\* sending, and doRequest returns that error as ctx.Err() is not nil.
BeginAttempt(o, a) ==
    /\ attempt' = a
    /\ req' = NewRequest(client, o, a)
    /\ doCalls' = doCalls + 1
    /\ IF ctxErr # "nil"
       THEN /\ history' = Append(history, [err |-> TRUE, StatusCode |-> 0])
            /\ doResult' = [resp |-> NoResponse, err |-> PlainError(ctxErr)]
            /\ Return(o, [resp |-> NoResponse, err |-> TransportError(ctxErr)])
            /\ UNCHANGED waits
       ELSE /\ pc' = "attempting"
            /\ delay' = Zero64
            /\ woken' = "none"
            /\ UNCHANGED <<history, doResult, lastResp, lastErr, ret, callErr, waits>>

\* if attempt < c.retry.maxRetries: a wait and another attempt follow.
HasRetryLeftOffByOne(cfg, a) == a + 1 < cfg.maxRetries

\* The condition with <= in place of <.
HasRetryLeftOneMore(cfg, a) == a <= cfg.maxRetries

HasRetryLeft(cfg, a) == a < cfg.maxRetries

\* return lastResp, nil: the response of the previous attempt in place of
\* the one just received.
FinalResponseStale(resp, last) ==
    [resp |-> IF last = NoResponse THEN resp ELSE last, err |-> Nil]

\* return resp, nil
FinalResponse(resp, last) == [resp |-> resp, err |-> Nil]

\* if ctx.Err() != nil
ContextDoneNever(e) == FALSE

ContextDone(e) == e # "nil"

\* The error of a call whose last attempt got a retryable status, with the
\* attempts in place of the retries in its message.
ExhaustedErrorCountsAttempts(cfg, resp) ==
    ErrorValue("APIError", resp.StatusCode,
               <<"request failed after ">> \o DecStr(cfg.maxRetries + 1)
               \o <<" retries with status ">> \o DecStr(resp.StatusCode),
               <<>>, NoFields)

\* The exhausted error with the status of the response before the last one,
\* when there is one.
ExhaustedErrorEarlierStatus(cfg, resp) ==
    ErrorValue("APIError",
               IF lastResp # NoResponse THEN lastResp.StatusCode ELSE resp.StatusCode,
               <<"request failed after ">> \o DecStr(cfg.maxRetries)
               \o <<" retries with status ">> \o DecStr(resp.StatusCode),
               <<>>, NoFields)

\* &APIError{StatusCode: lastResp.StatusCode, Message: fmt.Sprintf("request
\* failed after %d retries with status %d", ...)}: no request ID is set.
ExhaustedError(cfg, resp) ==
    ErrorValue("APIError", resp.StatusCode,
               <<"request failed after ">> \o DecStr(cfg.maxRetries)
               \o <<" retries with status ">> \o DecStr(resp.StatusCode),
               <<>>, NoFields)

\* The body of the response httpClient.Do just returned: open.
Received(b, resp) == Append(b, [StatusCode |-> resp.StatusCode, open |-> TRUE])

\* resp.Body.Close() on the latest response.
CloseLatest(b) == [b EXCEPT ![Len(b)].open = FALSE]

\* A retry that leaves the body of the response open.
CloseBeforeRetryNever(b) == b

\* lastResp = resp; _ = resp.Body.Close(): before the wait, and before the
\* exhausted error.
CloseBeforeRetry(b) == CloseLatest(b)

\* defer resp.Body.Close() of doJSON and of the delete operation, which runs
\* when the operation returns.
DeferredClose(b) == CloseLatest(b)

\* A client operation is called with a live or an already cancelled context.
Call(o) ==
    /\ pc = "idle"
    /\ op' = o
    /\ BeginAttempt(o, 0)
    /\ UNCHANGED <<client, config, calls, bodies, arch, ctxErr, fnIn, fnOut>>

\* httpClient.Do returns a response.
DoReturnsResponse(resp, draw, pick) ==
    /\ pc = "attempting"
    /\ history' = Append(history, [err |-> FALSE, StatusCode |-> resp.StatusCode])
    /\ doResult' = [resp |-> resp, err |-> Nil]
    /\ bodies' = IF ~isRetryableStatus(resp.StatusCode)
                  THEN DeferredClose(Received(bodies, resp))
                  ELSE CloseBeforeRetry(Received(bodies, resp))
    /\ IF ~isRetryableStatus(resp.StatusCode)
       THEN /\ Return(op, FinalResponse(resp, lastResp))
            /\ UNCHANGED waits
       ELSE IF HasRetryLeft(client.retry, attempt)
       THEN /\ lastResp' = resp
            /\ Sleep(resp, draw, pick)
            /\ UNCHANGED lastErr
       ELSE /\ Return(op, [resp |-> NoResponse, err |-> ExhaustedError(client.retry, resp)])
            /\ UNCHANGED waits
    /\ UNCHANGED <<client, config, calls, arch, ctxErr, op, attempt, req, doCalls, fnIn, fnOut>>

\* httpClient.Do returns an error: a network failure or, once the context is
\* done, the context's error.
DoReturnsError(cause, draw, pick) ==
    /\ pc = "attempting"
    /\ cause \in {"net"} \cup ({ctxErr} \ {"nil"})
    /\ history' = Append(history, [err |-> TRUE, StatusCode |-> 0])
    /\ doResult' = [resp |-> NoResponse, err |-> PlainError(cause)]
    /\ IF ContextDone(ctxErr)
       THEN /\ Return(op, [resp |-> NoResponse, err |-> TransportError(cause)])
            /\ UNCHANGED waits
       ELSE IF HasRetryLeft(client.retry, attempt)
       THEN /\ lastErr' = TransportError(cause)
            /\ Sleep(NoResponse, draw, pick)
            /\ UNCHANGED lastResp
       ELSE /\ Return(op, [resp |-> NoResponse, err |-> TransportError(cause)])
            /\ UNCHANGED waits
    /\ UNCHANGED <<client, config, calls, bodies, arch, ctxErr, op, attempt, req, doCalls, fnIn, fnOut>>

\* The caller cancels the context, or its deadline expires.  A goroutine
\* blocked in the select of sleepWithContext is woken by ctx.Done().
Cancel(why) ==
    /\ pc \in {"idle", "attempting", "sleeping"}
    /\ ctxErr = "nil"
    /\ ctxErr' = why
    /\ woken' = IF pc = "sleeping" /\ woken = "none" THEN "ctx" ELSE woken
    /\ UNCHANGED <<client, config, calls, bodies, arch, pc, op, attempt, req, lastResp, lastErr,
                   delay, ret, callErr, history, doCalls, waits, doResult, fnIn, fnOut>>

\* The timer of sleepWithContext fires while the goroutine is blocked in
\* the select.
TimerFires ==
    /\ pc = "sleeping"
    /\ woken = "none"
    /\ woken' = "timer"
    /\ UNCHANGED <<client, config, calls, bodies, arch, ctxErr, pc, op, attempt, req, lastResp, lastErr,
                   delay, ret, callErr, history, doCalls, waits, doResult, fnIn, fnOut>>

\* sleepWithContext without the ctx.Done() case.
sleepWithContextIgnoresCtx(w, e) == Nil

\* A sleepWithContext that reports the context's error on either case.
sleepWithContextAlwaysCtxErr(w, e) == PlainError(e)

\* What sleepWithContext returns once its select took case w.
sleepWithContext(w, e) == IF w = "ctx" THEN PlainError(e) ELSE Nil

\* sleepWithContext returns: doRequest returns its error, or goes on with
\* the next attempt.
SleepReturns ==
    /\ pc = "sleeping"
    /\ woken # "none"
    /\ LET sleepErr == sleepWithContext(woken, ctxErr)
       IN  IF sleepErr # Nil
           THEN /\ Return(op, [resp |-> NoResponse, err |-> sleepErr])
                /\ UNCHANGED <<attempt, req, doCalls, history, waits, doResult>>
           ELSE BeginAttempt(op, attempt + 1)
    /\ UNCHANGED <<client, config, calls, bodies, arch, ctxErr, op, fnIn, fnOut>>

CtxErrors == {"context canceled", "context deadline exceeded"}

Next ==
    \/ \E o \in Ops : Call(o)
    \/ \E resp \in Responses, draw \in {"min", "max"}, pick \in {"ctx", "timer"} :
           DoReturnsResponse(resp, draw, pick)
    \/ \E cause \in {"net"} \cup CtxErrors, draw \in {"min", "max"}, pick \in {"ctx", "timer"} :
           DoReturnsError(cause, draw, pick)
    \/ \E why \in CtxErrors : Cancel(why)
    \/ TimerFires
    \/ SleepReturns

Spec == Init /\ [][Next]_vars

(***************************************************************************)
(* retryDelay and checkResponse applied on their own, to arguments the     *)
(* call model does not reach: every attempt index up to MaxAttemptIndex,   *)
(* every Retry-After value, both builds, and every status.                 *)
(***************************************************************************)
\* The configurations NewClient is applied to on its own.
NewClientConfigs ==
    [Endpoint   : {<<>>, <<"h">>, <<"h", "/">>, <<"h", "/", "/">>, <<"/">>},
     APIToken   : {"", "tok"},
     UserAgent  : {"", "ua/1"},
     Timeout    : {Zero64, Seconds(5)},
     MaxRetries : {-1, 0, 1, 5}]

\* The longest stack_id and bundle_id a bundle attachment is created with.
MaxIDLen == 2

\* The strings of at most n characters out of a letter, a digit and ":".
IDStrings(n) == UNION {[1..k -> {"s", "1", ":"}] : k \in 0..n}

\* The resource types of the provider: fn names the one whose Delete is
\* applied.
ResourceTypes ==
    {"StackResource", "BundleResource", "BundleAttachmentResource",
     "VCSIntegrationResource", "StackVariablesResource", "APITokenResource",
     "WorkerPoolResource", "SpaceResource"}

FnCalls ==
    {[fn |-> "retryDelay", attempt |-> a, resp |-> r, draw |-> d, cfg |-> DefaultConfig, plan |-> NoPlan, id |-> <<>>] :
        a \in 0..MaxAttemptIndex, r \in DelayResponses, d \in Draws}
    \cup {[fn |-> "checkResponse", attempt |-> 0, resp |-> r, draw |-> "min",
           cfg |-> DefaultConfig, plan |-> NoPlan, id |-> <<>>] : r \in CheckResponses}
    \cup {[fn |-> "NewClient", attempt |-> 0, resp |-> NoResponse, draw |-> "min",
           cfg |-> c, plan |-> NoPlan, id |-> <<>>] : c \in NewClientConfigs}
    \cup {[fn |-> res, attempt |-> 0, resp |-> r, draw |-> "min", cfg |-> DefaultConfig, plan |-> NoPlan, id |-> <<>>] :
            res \in ResourceTypes, r \in CheckResponses \cup {NoResponse}}
    \cup {[fn |-> "CreateImport", attempt |-> 0, resp |-> NoResponse, draw |-> "min",
           cfg |-> DefaultConfig, plan |-> [stack_id |-> st, bundle_id |-> b], id |-> <<>>] :
            st \in IDStrings(MaxIDLen), b \in IDStrings(MaxIDLen)}
    \cup {[fn |-> "ImportState", attempt |-> 0, resp |-> NoResponse, draw |-> "min",
           cfg |-> DefaultConfig, plan |-> NoPlan, id |-> i] :
            i \in IDStrings(MaxIDLen + 1)}

FnInit ==
    /\ config = DefaultConfig
    /\ client = NewClient(DefaultConfig).client
    /\ arch \in Archs
    /\ IdleCall
    /\ calls = [i \in CallIDs |-> IdleGoCall]
    /\ fnIn \in FnCalls
    /\ fnOut = NoFnResult

DelayResult(d) ==
    [done |-> TRUE, panic |-> d.panic, delay |-> d.delay, err |-> Nil, client |-> Nil,
     diags |-> <<>>, state |-> NoState]

NewClientResult(r) ==
    [done |-> TRUE, panic |-> FALSE, delay |-> Zero64, err |-> r.err, client |-> r.client,
     diags |-> <<>>, state |-> NoState]

ApplyRetryDelay ==
    /\ fnIn.fn = "retryDelay"
    /\ ~fnOut.done
    /\ fnOut' = DelayResult(retryDelay(client.retry, fnIn.attempt, fnIn.resp, arch, fnIn.draw))
    /\ UNCHANGED <<callVars, calls, arch, fnIn>>

ApplyCheckResponse ==
    /\ fnIn.fn = "checkResponse"
    /\ ~fnOut.done
    /\ fnOut' = [done |-> TRUE, panic |-> FALSE, delay |-> Zero64,
                 err |-> checkResponse(fnIn.resp), client |-> Nil, diags |-> <<>>, state |-> NoState]
    /\ UNCHANGED <<callVars, calls, arch, fnIn>>

ApplyNewClient ==
    /\ fnIn.fn = "NewClient"
    /\ ~fnOut.done
    /\ fnOut' = NewClientResult(NewClient(fnIn.cfg))
    /\ UNCHANGED <<callVars, calls, arch, fnIn>>

\* The prefix the client operation called by the Delete of res puts before
\* an error.
DeletePrefix(res) ==
    CASE res = "StackResource" -> "delete stack"
      [] res = "BundleResource" -> "delete bundle"
      [] res = "BundleAttachmentResource" -> "detach bundle"
      [] res = "VCSIntegrationResource" -> "delete vcs integration"
      [] res = "StackVariablesResource" -> "set stack variables"
      [] res = "APITokenResource" -> "delete token"
      [] res = "WorkerPoolResource" -> "delete worker pool"
      [] res = "SpaceResource" -> "delete space"

\* What that operation makes of a response doRequest returned: the stack
\* variables are cleared with doJSON, which decodes the body of a 2xx
\* response; the delete operations only check the response.
DeleteDecode(res, resp, checked) ==
    IF checked # Nil THEN checked
    ELSE IF res = "StackVariablesResource" /\ resp.Body.json # "valid"
    THEN PlainError("unmarshaling response")
    ELSE Nil

\* The error of the client operation the Delete of res calls, doRequest
\* having returned resp, or a transport error when resp is nil.
ClientDelete(res, resp) ==
    WrapIfError(DeletePrefix(res),
                IF resp = NoResponse THEN TransportError("net")
                ELSE DeleteDecode(res, resp, checkResponse(resp)))

DeleteSummary(res) ==
    CASE res = "StackResource" -> "Error Deleting Stack"
      [] res = "BundleResource" -> "Error Deleting Bundle"
      [] res = "BundleAttachmentResource" -> "Error Detaching Bundle"
      [] res = "VCSIntegrationResource" -> "Error Deleting VCS Integration"
      [] res = "StackVariablesResource" -> "Error Deleting Stack Variables"
      [] res = "APITokenResource" -> "Error Deleting API Token"
      [] res = "WorkerPoolResource" -> "Error Deleting Worker Pool"
      [] res = "SpaceResource" -> "Error Deleting Space"

\* A Delete that reports every error of the client.
ResourceDeleteReportsAll(res, err) ==
    IF err # Nil THEN <<[severity |-> "error", summary |-> DeleteSummary(res)]>> ELSE <<>>

\* The diagnostics of the Delete of resource type res whose client
\* operation returned err.
ResourceDelete(res, err) ==
    IF err # Nil /\ ~IsNotFound(err)
    THEN <<[severity |-> "error", summary |-> DeleteSummary(res)]>>
    ELSE <<>>

DeleteResult(err, ds) ==
    [done |-> TRUE, panic |-> FALSE, delay |-> Zero64, err |-> err, client |-> Nil,
     diags |-> ds, state |-> NoState]

ApplyDelete ==
    /\ fnIn.fn \in ResourceTypes
    /\ ~fnOut.done
    /\ fnOut' = DeleteResult(ClientDelete(fnIn.fn, fnIn.resp),
                             ResourceDelete(fnIn.fn, ClientDelete(fnIn.fn, fnIn.resp)))
    /\ UNCHANGED <<callVars, calls, arch, fnIn>>

RECURSIVE Index(_, _, _)
\* strings.Index(s, c) counted from 1, from position k on: 0 when c is not in s.
Index(s, c, k) ==
    IF k > Len(s) THEN 0
    ELSE IF s[k] = c THEN k
    ELSE Index(s, c, k + 1)

\* The two parts at position k of sep (k > 0).
SplitAt(s, k) == <<SubSeq(s, 1, k - 1), SubSeq(s, k + 1, Len(s))>>

\* strings.SplitN(s, sep, 2): s alone when sep is not in s, otherwise what is
\* before the first sep and what is after it.
SplitN2(s, sep) == IF Index(s, sep, 1) = 0 THEN <<s>> ELSE SplitAt(s, Index(s, sep, 1))

\* The state BundleAttachmentResource.Create sets once the bundle is
\* attached: plan.ID = stackID + ":" + bundleID.
Create(plan) ==
    [id |-> plan.stack_id \o <<":">> \o plan.bundle_id,
     stack_id |-> plan.stack_id, bundle_id |-> plan.bundle_id]

\* BundleAttachmentResource.ImportState once req.ID is split into parts.
ImportParts(id, parts) ==
    IF Len(parts) # 2 \/ parts[1] = <<>> \/ parts[2] = <<>>
    THEN [diags |-> <<[severity |-> "error", summary |-> "Invalid Import ID"]>>,
          state |-> NoState]
    ELSE [diags |-> <<>>,
          state |-> [id |-> id, stack_id |-> parts[1], bundle_id |-> parts[2]]]

ImportState(id) == ImportParts(id, SplitN2(id, ":"))

ImportResult(r) ==
    [done |-> TRUE, panic |-> FALSE, delay |-> Zero64, err |-> Nil, client |-> Nil,
     diags |-> r.diags, state |-> r.state]

\* Create attaches the bundle of the plan, and the ID it wrote is imported.
ApplyCreateImport ==
    /\ fnIn.fn = "CreateImport"
    /\ ~fnOut.done
    /\ fnOut' = ImportResult(ImportState(Create(fnIn.plan).id))
    /\ UNCHANGED <<callVars, calls, arch, fnIn>>

ApplyImportState ==
    /\ fnIn.fn = "ImportState"
    /\ ~fnOut.done
    /\ fnOut' = ImportResult(ImportState(fnIn.id))
    /\ UNCHANGED <<callVars, calls, arch, fnIn>>

FnNext ==
    \/ ApplyRetryDelay
    \/ ApplyCheckResponse
    \/ ApplyNewClient
    \/ ApplyDelete
    \/ ApplyCreateImport
    \/ ApplyImportState

FnSpec == FnInit /\ [][FnNext]_vars

(***************************************************************************)
(* One call on a client built with many retries, against a server that     *)
(* answers 503 or 200.  Every call of httpClient.Do returns (the client    *)
(* has a timeout), a timer that was started fires, and a goroutine whose   *)
(* select has a ready case goes on: the fairness of LongSpec.              *)
(***************************************************************************)
\* The MaxRetries of that client.
LongRetries == 36

LongConfig == [DefaultConfig EXCEPT !.MaxRetries = LongRetries]

LongResponses ==
    {[StatusCode |-> st, Header |-> Header(<<>>, <<>>), Body |-> EmptyBody] :
        st \in {200, 503}}

LongInit ==
    /\ config = LongConfig
    /\ client = NewClient(LongConfig).client
    /\ arch = "amd64"
    /\ IdleCall
    /\ calls = [i \in CallIDs |-> IdleGoCall]
    /\ fnIn = NoFnCall
    /\ fnOut = NoFnResult

\* httpClient.Do returns, a response or the error of the context.
DoReturns ==
    \/ \E resp \in LongResponses, pick \in {"ctx", "timer"} :
           DoReturnsResponse(resp, "min", pick)
    \/ \E cause \in CtxErrors, pick \in {"ctx", "timer"} :
           DoReturnsError(cause, "min", pick)

LongNext ==
    \/ Call("DeleteSpace")
    \/ DoReturns
    \/ \E why \in CtxErrors : Cancel(why)
    \/ TimerFires
    \/ SleepReturns

LongSpec ==
    /\ LongInit
    /\ [][LongNext]_vars
    /\ WF_vars(DoReturns)
    /\ WF_vars(TimerFires)
    /\ WF_vars(SleepReturns)

(***************************************************************************)
(* Several goroutines call the one client at the same time, each with a    *)
(* context that stays live.  Every call runs doRequest on its own stack:   *)
(* its locals are the fields of calls[i], and the client is only read.     *)
(***************************************************************************)
\* doRequest of a call with locals l returns r.
GoReturn(l, o, r) ==
    [l EXCEPT !.pc = "returned", !.ret = r, !.callErr = OperationError(o, r),
              !.lastResp = NoResponse, !.lastErr = Nil]

\* The locals of a call after httpClient.Do returned out to it: l has out
\* in its log already.
AfterDo(c, l, o, out) ==
    IF out.err # Nil
    THEN IF HasRetryLeft(c.retry, l.attempt)
         THEN [l EXCEPT !.pc = "sleeping", !.lastErr = Wrap("executing request", out.err)]
         ELSE GoReturn(l, o, [resp |-> NoResponse,
                              err |-> Wrap("executing request", out.err)])
    ELSE IF ~isRetryableStatus(out.resp.StatusCode)
    THEN GoReturn(l, o, FinalResponse(out.resp, l.lastResp))
    ELSE IF HasRetryLeft(c.retry, l.attempt)
    THEN [l EXCEPT !.pc = "sleeping", !.lastResp = out.resp]
    ELSE GoReturn(l, o, [resp |-> NoResponse, err |-> ExhaustedError(c.retry, out.resp)])

\* The loop variable taken from a counter all the calls share.
NextAttemptShared(cs, i) ==
    1 + CHOOSE a \in {cs[j].attempt : j \in DOMAIN cs} :
            \A j \in DOMAIN cs : cs[j].attempt <= a

\* for attempt := range ...: the loop variable of call i steps by one.
NextAttempt(cs, i) == cs[i].attempt + 1

\* Goroutine i calls its operation: doRequest starts its first attempt.
GoCall(i) ==
    /\ calls[i].pc = "idle"
    /\ calls' = [calls EXCEPT ![i] = [@ EXCEPT !.pc = "attempting", !.attempt = 0,
                                                !.doCalls = 1]]
    /\ UNCHANGED <<callVars, arch, fnIn, fnOut>>

\* httpClient.Do returns out to the attempt of call i.
GoDoReturns(i, out) ==
    /\ calls[i].pc = "attempting"
    /\ calls' = [calls EXCEPT ![i] =
                    AfterDo(client, [@ EXCEPT !.seen = Append(@, out)], OpOf(i), out)]
    /\ UNCHANGED <<callVars, arch, fnIn, fnOut>>

\* sleepWithContext returns nil to call i, whose next attempt starts.
GoSleepReturns(i) ==
    /\ calls[i].pc = "sleeping"
    /\ calls' = [calls EXCEPT ![i] = [@ EXCEPT !.pc = "attempting",
                                                !.attempt = NextAttempt(calls, i),
                                                !.doCalls = @ + 1]]
    /\ UNCHANGED <<callVars, arch, fnIn, fnOut>>

ConcNext ==
    \/ \E i \in CallIDs : GoCall(i)
    \/ \E i \in CallIDs, out \in ConcOutcomes : GoDoReturns(i, out)
    \/ \E i \in CallIDs : GoSleepReturns(i)

ConcSpec == Init /\ [][ConcNext]_vars

(***************************************************************************)
(* Properties.  The vocabulary below is that of the specification: it is   *)
(* written without the operators that model the code, so that a property   *)
(* is compared with the code and not with itself.                          *)
(***************************************************************************)
Last(h) == h[Len(h)]

Is2xx(st) == st >= 200 /\ st < 300

\* Attempts 1..n of the log h each got a response with status st.
AllReturned(h, n, st) == \A i \in 1..n : ~h[i].err /\ h[i].StatusCode = st

\* The error kind the specification gives a non-2xx status.
TypedKind(st) ==
    CASE st = 404 -> "NotFoundError"
      [] st = 409 -> "ConflictError"
      [] st = 401 -> "UnauthorizedError"
      [] st = 403 -> "ForbiddenError"
      [] st = 400 -> "ValidationError"
      [] st = 422 -> "ValidationError"
      [] OTHER -> "APIError"

Min64(a, b) == IF Less64(b, a) THEN b ELSE a

\* min(baseDelay * 2^a, maxDelay) over the integers.  Up to a = 30 the
\* product of a base delay below 2^32 ns fits in an int64; beyond, the
\* product of a base delay of at least 32 ns exceeds any max delay below
\* 2^36 ns, so the minimum is the max delay.
CappedExponential(cfg, a) ==
    IF a <= 30 THEN Min64(Mul64(cfg.baseDelay, Bit64(a)), cfg.maxDelay) ELSE cfg.maxDelay

\* d/2 + d/4 <= dd < d/2 + d/4 + d/2
InJitterRange(dd, d) ==
    /\ LessEq64(Add64(Quo2(d), Quo2(Quo2(d))), dd)
    /\ Less64(dd, Add64(Add64(Quo2(d), Quo2(Quo2(d))), Quo2(d)))

\* s is the decimal numeral of a positive integer.
IsPositiveInteger(s) ==
    /\ Len(s) > 0
    /\ \A i \in 1..Len(s) : IsDigit(s[i])
    /\ s[1] # "0"

RECURSIVE NumeralValue(_)
\* The value of a numeral of at most four digits.
NumeralValue(s) ==
    IF Len(s) = 0 THEN 0
    ELSE NumeralValue(SubSeq(s, 1, Len(s) - 1)) * 10 + DigitVal(s[Len(s)])

\* min(N seconds, maxDelay) over the integers, N the positive integer with
\* numeral s: a numeral of five digits or more is above any max delay of
\* less than 10000 s.
CappedSeconds(cfg, s) ==
    IF Len(s) > 4 THEN cfg.maxDelay ELSE Min64(Seconds(NumeralValue(s)), cfg.maxDelay)

\* C1: for each retryable status and each k <= maxRetries + 1, a call whose
\* first k - 1 attempts get that status and whose attempt k gets a 2xx
\* response has returned that response with no error, after exactly k
\* attempts.
C1_SuccessOnAttemptK ==
    (/\ Len(history) >= 1
     /\ ~Last(history).err
     /\ Is2xx(Last(history).StatusCode)
     /\ \E st \in {429, 502, 503, 504} : AllReturned(history, Len(history) - 1, st))
    => /\ pc = "returned"
       /\ ret = [resp |-> doResult.resp, err |-> Nil]
       /\ ret.resp.StatusCode = Last(history).StatusCode
       /\ doCalls = Len(history)
       /\ Len(history) <= client.retry.maxRetries + 1

\* A call of the default client that succeeded on its fourth and last attempt
\* after three 504 responses.
C1_Witness ==
    /\ pc = "returned"
    /\ client.retry.maxRetries = 3
    /\ Len(history) = 4
    /\ AllReturned(history, 3, 504)
    /\ ~history[4].err /\ history[4].StatusCode = 201
    /\ ret.err = Nil /\ ret.resp.StatusCode = 201
    /\ doCalls = 4

\* C2: when the first attempt gets a non-2xx status that is not retryable,
\* the call has made exactly one attempt and no wait, doRequest has handed
\* the response back, and the operation has returned the typed error of
\* that status.
C2_NonRetryableFailsFast ==
    (/\ Len(history) >= 1
     /\ ~history[1].err
     /\ ~Is2xx(history[1].StatusCode)
     /\ history[1].StatusCode \notin {429, 502, 503, 504})
    => /\ pc = "returned"
       /\ Len(history) = 1 /\ doCalls = 1
       /\ waits = 0
       /\ ret = [resp |-> doResult.resp, err |-> Nil]
       /\ callErr # Nil
       /\ callErr.kind = TypedKind(history[1].StatusCode)
       /\ callErr.StatusCode = history[1].StatusCode
       /\ callErr.wrap = <<OpPrefix(op)>>

\* A call that got 404 at once and returned a not-found error.
C2_Witness ==
    /\ pc = "returned"
    /\ history = <<[err |-> FALSE, StatusCode |-> 404]>>
    /\ IsNotFound(callErr)
    /\ doCalls = 1 /\ waits = 0

\* C3: when each of the maxRetries + 1 attempts gets a retryable status, the
\* call has made exactly maxRetries + 1 attempts and returned an APIError
\* with the status of the last attempt and the message "request failed after
\* <maxRetries> retries with status <last status>".
C3_ExhaustedError ==
    (/\ Len(history) = client.retry.maxRetries + 1
     /\ \A i \in 1..Len(history) :
            ~history[i].err /\ history[i].StatusCode \in {429, 502, 503, 504})
    => /\ pc = "returned"
       /\ doCalls = client.retry.maxRetries + 1
       /\ ret.resp = NoResponse
       /\ ret.err # Nil
       /\ ret.err.kind = "APIError"
       /\ ret.err.StatusCode = Last(history).StatusCode
       /\ ret.err.Message = <<"request failed after ">> \o DecStr(client.retry.maxRetries)
                            \o <<" retries with status ">>
                            \o DecStr(Last(history).StatusCode)

\* The default client after 429, then 502 and 504, then 503.
C3_Witness ==
    /\ pc = "returned"
    /\ client.retry.maxRetries = 3
    /\ Len(history) = 4
    /\ history[1].StatusCode = 429 /\ history[2].StatusCode = 502
    /\ history[3].StatusCode = 504 /\ history[4].StatusCode = 503
    /\ \A i \in 1..4 : ~history[i].err
    /\ ret.err # Nil
    /\ ret.err.StatusCode = 503
    /\ ret.err.Message = <<"request failed after ", "3", " retries with status ", "5", "0", "3">>

\* C4: a context that is cancelled, or whose deadline expires, while the
\* call is blocked in an inter-retry wait wakes the wait at once, and a wait
\* woken by the context ends in the call returning the context's error: no
\* timer is waited for and no further attempt is started.
C4_CancelDuringWait ==
    [][/\ (pc = "sleeping" /\ woken = "none" /\ ctxErr = "nil" /\ ctxErr' # "nil")
            => (pc' = "sleeping" /\ woken' = "ctx")
       /\ (pc = "sleeping" /\ woken = "ctx")
            => /\ ctxErr \in {"context canceled", "context deadline exceeded"}
               /\ pc' = "returned"
               /\ ret' = [resp |-> NoResponse,
                          err |-> ErrorValue("error", 0, ctxErr, <<>>, <<>>)]
               /\ doCalls' = doCalls
               /\ history' = history
               /\ waits' = waits]_vars

\* A call that waited after a 503 and returned the cancellation error from
\* the wait, with three retries unused.
C4_Witness ==
    /\ pc = "returned"
    /\ client.retry.maxRetries = 3
    /\ history = <<[err |-> FALSE, StatusCode |-> 503]>>
    /\ ctxErr = "context canceled"
    /\ ret.err # Nil
    /\ ret.err.Message = "context canceled" /\ ret.err.wrap = <<>>
    /\ waits = 1 /\ doCalls = 1

\* C5: when an attempt fails at the transport level while the context is
\* already done, the call returns that error in the same step: no wait and
\* no further attempt follow, whatever the budget left.
C5_CancelledTransportFailure ==
    [][(/\ ctxErr # "nil"
        /\ Len(history') = Len(history) + 1
        /\ Last(history').err)
       => /\ pc' = "returned"
          /\ ret'.resp = NoResponse
          /\ ret'.err # Nil
          /\ ret'.err = [doResult'.err EXCEPT !.wrap = <<"executing request">>]
          /\ waits' = waits
          /\ doCalls' = Len(history')]_vars

\* The second attempt of the default client failed in the network after the
\* deadline had expired: the call returned with two retries unused.
C5_Witness ==
    /\ pc = "returned"
    /\ client.retry.maxRetries = 3
    /\ ctxErr = "context deadline exceeded"
    /\ Len(history) = 2 /\ history[2].err
    /\ ret.err # Nil
    /\ ret.err.Message = "net" /\ ret.err.wrap = <<"executing request">>
    /\ doCalls = 2 /\ waits = 1

C7_RetryAfterExact ==
    (/\ fnOut.done
     /\ fnIn.fn = "retryDelay"
     /\ fnIn.resp # NoResponse
     /\ fnIn.resp.StatusCode = 429
     /\ "Retry-After" \in DOMAIN fnIn.resp.Header
     /\ IsPositiveInteger(fnIn.resp.Header["Retry-After"]))
    => /\ ~fnOut.panic
       /\ fnOut.delay = CappedSeconds(client.retry, fnIn.resp.Header["Retry-After"])

\* C8: for every attempt index and every jitter draw, the delay retryDelay
\* returns does not exceed the configured max delay.
C8_DelayWithinMax ==
    (fnOut.done /\ fnIn.fn = "retryDelay" /\ ~fnOut.panic)
    => LessEq64(fnOut.delay, client.retry.maxDelay)

\* C9: without a Retry-After header to honour (no response, a status other
\* than 429, no header), retryDelay returns a delay within
\* [d/2 + d/4, d/2 + d/4 + d/2) for d = min(baseDelay * 2^attempt, maxDelay).
C9_JitterRange ==
    (/\ fnOut.done
     /\ fnIn.fn = "retryDelay"
     /\ \/ fnIn.resp = NoResponse
        \/ fnIn.resp.StatusCode # 429
        \/ "Retry-After" \notin DOMAIN fnIn.resp.Header)
    => /\ ~fnOut.panic
       /\ InJitterRange(fnOut.delay, CappedExponential(client.retry, fnIn.attempt))

\* C10: checkResponse gives a 2xx status no error, and every other status
\* the one kind of its class: 404, 409, 401, 403 their typed errors, 400 and
\* 422 ValidationError, anything else (1xx, 3xx, other 4xx and 5xx) APIError.
C10_StatusToKind ==
    (fnOut.done /\ fnIn.fn = "checkResponse")
    => IF Is2xx(fnIn.resp.StatusCode) THEN fnOut.err = Nil
       ELSE /\ fnOut.err # Nil
            /\ fnOut.err.kind = TypedKind(fnIn.resp.StatusCode)
            /\ fnOut.err.kind \in {"NotFoundError", "ConflictError", "UnauthorizedError",
                                   "ForbiddenError", "ValidationError", "APIError"}

\* checkResponse applied to a 422 response gave a ValidationError.
C10_Witness ==
    /\ fnOut.done
    /\ fnIn.fn = "checkResponse"
    /\ fnIn.resp.StatusCode = 422
    /\ fnOut.err.kind = "ValidationError"

\* The message the precedence of the specification picks for a response: a
\* body that is a JSON object (decoded or not) gives its non-empty 'message',
\* else its non-empty 'error'; anything else gives the status text.
PrecedenceMessage(resp) ==
    IF resp.Body.json # "syntax" /\ resp.Body.message # "" THEN resp.Body.message
    ELSE IF resp.Body.json # "syntax" /\ resp.Body.error # "" THEN resp.Body.error
    ELSE StatusText(resp.StatusCode)

\* C11: the error checkResponse gives a non-2xx response has the message of
\* the precedence: the body's non-empty 'message' if the body is a JSON
\* object, else its non-empty 'error', else (also for a body that is no
\* JSON) the status text; and the error is of the kind of its status
\* whatever the body.
C11_MessagePrecedence ==
    (fnOut.done /\ fnIn.fn = "checkResponse" /\ ~Is2xx(fnIn.resp.StatusCode))
    => /\ fnOut.err # Nil
       /\ fnOut.err.kind = TypedKind(fnIn.resp.StatusCode)
       /\ fnOut.err.Message = PrecedenceMessage(fnIn.resp)

\* C12: a 400 or 422 response gives a ValidationError whose Fields are the
\* 'fields' member of the body and whose message follows the precedence; the
\* body {error: validation_error, message: name is required, fields: {name:
\* required}} gives the message "name is required" and Fields {name: required}.
C12_ValidationFields ==
    (fnOut.done /\ fnIn.fn = "checkResponse" /\ fnIn.resp.StatusCode \in {400, 422})
    => /\ fnOut.err # Nil
       /\ fnOut.err.kind = "ValidationError"
       /\ fnOut.err.Fields = (IF fnIn.resp.Body.json = "syntax" THEN <<>>
                              ELSE fnIn.resp.Body.fields)
       /\ fnOut.err.Message = PrecedenceMessage(fnIn.resp)
       /\ (fnIn.resp.Body = [json |-> "valid", error |-> "validation_error",
                             message |-> "name is required",
                             fields |-> [f \in {"name"} |-> "required"]])
          => /\ fnOut.err.Message = "name is required"
             /\ fnOut.err.Fields = [f \in {"name"} |-> "required"]

\* C14: the error checkResponse gives a non-2xx response, of whatever kind,
\* has the status code of the response as StatusCode and the value of its
\* X-Request-ID header as RequestID, the empty string without the header.
C14_StatusAndRequestID ==
    (fnOut.done /\ fnIn.fn = "checkResponse" /\ ~Is2xx(fnIn.resp.StatusCode))
    => /\ fnOut.err # Nil
       /\ fnOut.err.StatusCode = fnIn.resp.StatusCode
       /\ fnOut.err.RequestID = (IF "X-Request-ID" \in DOMAIN fnIn.resp.Header
                                 THEN fnIn.resp.Header["X-Request-ID"] ELSE <<>>)

\* A 403 response with X-Request-ID: r1 gave a ForbiddenError carrying both.
C14_Witness ==
    /\ fnOut.done
    /\ fnIn.fn = "checkResponse"
    /\ fnIn.resp.StatusCode = 403
    /\ fnIn.resp.Header = [h \in {"X-Request-ID"} |-> <<"r", "1">>]
    /\ fnOut.err.kind = "ForbiddenError"
    /\ fnOut.err.StatusCode = 403
    /\ fnOut.err.RequestID = <<"r", "1">>

\* The status of the response doRequest handed back to the operation, 0 if
\* it handed back none.
TerminalStatus == IF pc = "returned" /\ ret.err = Nil THEN ret.resp.StatusCode ELSE 0

\* C13: of the error a client operation returned, wrapped with the prefix of
\* the operation, IsNotFound holds iff the terminal response had status 404,
\* IsConflict iff 409, IsUnauthorized iff 401, IsForbidden iff 403; at most
\* one of the four holds, and none holds of nil, of a validation or generic
\* API error, of a transport or cancellation error or of the error of
\* exhausted retries.
C13_KindPredicates ==
    /\ IsNotFound(callErr) <=> TerminalStatus = 404
    /\ IsConflict(callErr) <=> TerminalStatus = 409
    /\ IsUnauthorized(callErr) <=> TerminalStatus = 401
    /\ IsForbidden(callErr) <=> TerminalStatus = 403
    /\ Cardinality({p \in {IsNotFound(callErr), IsConflict(callErr),
                          IsUnauthorized(callErr), IsForbidden(callErr)} : p}) <= 1
    /\ callErr # Nil => (callErr.wrap # <<>> /\ Head(callErr.wrap) = OpPrefix(op))
    /\ (callErr = Nil \/ callErr.kind \in {"ValidationError", "APIError", "error"}
        \/ ret.err # Nil)
       => /\ ~IsNotFound(callErr) /\ ~IsConflict(callErr)
          /\ ~IsUnauthorized(callErr) /\ ~IsForbidden(callErr)
          /\ ~IsNotFound(ret.err) /\ ~IsConflict(ret.err)
          /\ ~IsUnauthorized(ret.err) /\ ~IsForbidden(ret.err)

\* DeleteSpace got 409 and returned "delete space: ..." wrapping a
\* ConflictError: IsConflict holds of it and IsNotFound does not.
C13_Witness ==
    /\ pc = "returned"
    /\ op = "DeleteSpace"
    /\ ret.err = Nil /\ ret.resp.StatusCode = 409
    /\ callErr # Nil
    /\ callErr.wrap = <<"delete space">>
    /\ IsConflict(callErr) /\ ~IsNotFound(callErr)

\* C15: NewClient applied to a configuration with an empty Endpoint or an
\* empty APIToken returns an error and no client (so nothing can be sent
\* from it); applied to one with both set it returns a client and no error.
C15_NewClientValidation ==
    (fnOut.done /\ fnIn.fn = "NewClient")
    => IF fnIn.cfg.Endpoint = <<>> \/ fnIn.cfg.APIToken = ""
       THEN fnOut.err # Nil /\ fnOut.client = Nil
       ELSE fnOut.err = Nil /\ fnOut.client # Nil

\* NewClient refused a configuration with an endpoint and no token.
C15_Witness ==
    /\ fnOut.done
    /\ fnIn.fn = "NewClient"
    /\ fnIn.cfg.Endpoint = <<"h">> /\ fnIn.cfg.APIToken = ""
    /\ fnOut.err # Nil
    /\ fnOut.err.Message = "api_token is required"
    /\ fnOut.client = Nil

\* What is left of s after its first n elements.
Rest(s, n) == SubSeq(s, n + 1, Len(s))

\* C16: the base URL NewClient stores is the endpoint without its trailing
\* slashes and never ends with "/"; an endpoint that is already normalized
\* is stored unchanged, and so is the base URL when normalized again; the URL
\* of the request of every attempt is the base URL followed by the path.
C16_BaseURL ==
    /\ Len(client.baseURL) <= Len(config.Endpoint)
    /\ SubSeq(config.Endpoint, 1, Len(client.baseURL)) = client.baseURL
    /\ \A i \in 1..Len(config.Endpoint) :
           i > Len(client.baseURL) => config.Endpoint[i] = "/"
    /\ client.baseURL # <<>> => Last(client.baseURL) # "/"
    /\ Last(config.Endpoint) # "/" => client.baseURL = config.Endpoint
    /\ NewClient([config EXCEPT !.Endpoint = client.baseURL]).client.baseURL
           = client.baseURL
    /\ req # NoRequest
       => /\ SubSeq(req.URL, 1, Len(client.baseURL)) = client.baseURL
          /\ Rest(req.URL, Len(client.baseURL)) = OpPath(op)

\* A retry is being sent by a client built from an endpoint with a trailing
\* slash: its URL is the endpoint without the slash followed by the path.
C16_Witness ==
    /\ pc = "attempting"
    /\ attempt >= 1
    /\ config.Endpoint = <<"h", "/">>
    /\ client.baseURL = <<"h">>
    /\ req.URL = <<"h">> \o OpPath(op)

\* Whether err is an error that carries a retryable status.
CarriesRetryable(err) == err # Nil /\ err.StatusCode \in {429, 502, 503, 504}

\* C17: a call that has returned a retryable status to its caller, as the
\* response of doRequest or in the error of doRequest or of the operation,
\* has made all maxRetries + 1 attempts, and it returned the status in an
\* error, not as a response.
C17_RetryableOnlyWhenExhausted ==
    (/\ pc = "returned"
     /\ \/ ret.resp # NoResponse /\ ret.resp.StatusCode \in {429, 502, 503, 504}
        \/ CarriesRetryable(ret.err)
        \/ CarriesRetryable(callErr))
    => /\ doCalls = client.retry.maxRetries + 1
       /\ Len(history) = client.retry.maxRetries + 1
       /\ ret.resp = NoResponse
       /\ CarriesRetryable(ret.err)
       /\ ret.err.StatusCode = Last(history).StatusCode

\* A client with two retries returned 503 after a transport failure, a 504
\* and a 503.
C17_Witness ==
    /\ pc = "returned"
    /\ client.retry.maxRetries = 2
    /\ doCalls = 3
    /\ Len(history) = 3
    /\ history[1].err
    /\ history[2].StatusCode = 504
    /\ CarriesRetryable(callErr)
    /\ callErr.StatusCode = 503

\* C18: in every state of a call the number of attempts is at most
\* maxRetries + 1 and the number of waits between attempts at most
\* maxRetries; a client built without MaxRetries has 3 retries and makes at
\* most 4 attempts.
C18_AttemptBudget ==
    /\ doCalls <= client.retry.maxRetries + 1
    /\ attempt <= client.retry.maxRetries
    /\ waits <= client.retry.maxRetries
    /\ waits <= doCalls
    /\ config.MaxRetries = 0
       => /\ client.retry.maxRetries = 3
          /\ doCalls <= 4
          /\ waits <= 3

\* The default client has made its fourth attempt after three waits.
C18_Witness ==
    /\ config.MaxRetries = 0
    /\ doCalls = 4
    /\ waits = 3
    /\ pc = "returned"

\* The headers every attempt carries whatever the request: the bearer token
\* and the user agent of the configuration, and Accept.
FixedHeaders(h) ==
    /\ {"Authorization", "User-Agent", "Accept"} \subseteq DOMAIN h
    /\ h["Authorization"] = <<"Bearer ", config.APIToken>>
    /\ h["User-Agent"] = (IF config.UserAgent = "" THEN "terraform-provider-zenfra/0.1.0"
                          ELSE config.UserAgent)
    /\ h["Accept"] = "application/json"

\* C20 as stated: the request of every attempt carries the three fixed
\* headers and Content-Type: application/json.
C20_AllHeadersEveryAttempt ==
    req # NoRequest
    => /\ FixedHeaders(req.Header)
       /\ "Content-Type" \in DOMAIN req.Header
       /\ req.Header["Content-Type"] = "application/json"

\* C20, amended: the request of every attempt, the first one and each retry,
\* carries the three fixed headers; it carries Content-Type:
\* application/json when the request has a body and no Content-Type when it
\* has none.
C20_HeadersPerAttempt ==
    req # NoRequest
    => /\ FixedHeaders(req.Header)
       /\ req.Body = (op = "CreateSpace")
       /\ IF req.Body
          THEN /\ "Content-Type" \in DOMAIN req.Header
               /\ req.Header["Content-Type"] = "application/json"
          ELSE "Content-Type" \notin DOMAIN req.Header

\* The retry of a CreateSpace is being sent with a configured user agent: it
\* carries the four headers.
C20_Witness ==
    /\ pc = "attempting"
    /\ op = "CreateSpace"
    /\ attempt = 1
    /\ config.UserAgent = "ua/1"
    /\ req.Header["User-Agent"] = "ua/1"
    /\ req.Header["Authorization"] = <<"Bearer ", "tok">>
    /\ req.Header["Content-Type"] = "application/json"

RECURSIVE AloneFrom(_, _, _)
\* The call run alone with n retries against the outcomes seen, from the
\* k-th one on: whether it has returned, after how many attempts, and what:
\* the response it got ("final"), the failure of its last attempt
\* ("transport") or the retryable status of its last attempt ("exhausted").
AloneFrom(n, seen, k) ==
    IF k > Len(seen) THEN [done |-> FALSE, attempts |-> k, how |-> "running"]
    ELSE IF seen[k].err = Nil /\ seen[k].resp.StatusCode \notin {429, 502, 503, 504}
    THEN [done |-> TRUE, attempts |-> k, how |-> "final"]
    ELSE IF k <= n THEN AloneFrom(n, seen, k + 1)
    ELSE [done |-> TRUE, attempts |-> k,
          how |-> IF seen[k].err = Nil THEN "exhausted" ELSE "transport"]

RunAlone(n, seen) == AloneFrom(n, seen, 1)

\* The call with locals l returned what the run r of it alone returns.
SameOutcome(l, r) ==
    /\ l.doCalls = r.attempts
    /\ Len(l.seen) = r.attempts
    /\ CASE r.how = "final" ->
              /\ l.ret = [resp |-> Last(l.seen).resp, err |-> Nil]
              /\ IF Is2xx(l.ret.resp.StatusCode) THEN l.callErr = Nil
                 ELSE /\ l.callErr # Nil
                      /\ l.callErr.kind = TypedKind(l.ret.resp.StatusCode)
                      /\ l.callErr.StatusCode = l.ret.resp.StatusCode
         [] r.how = "exhausted" ->
              /\ l.ret.resp = NoResponse
              /\ l.ret.err # Nil
              /\ l.ret.err.kind = "APIError"
              /\ l.ret.err.StatusCode = Last(l.seen).resp.StatusCode
              /\ l.callErr # Nil
              /\ l.callErr.StatusCode = l.ret.err.StatusCode
         [] r.how = "transport" ->
              /\ l.ret.resp = NoResponse
              /\ l.ret.err # Nil
              /\ l.ret.err.kind = "error"
              /\ l.ret.err.Message = Last(l.seen).err.Message
              /\ l.callErr # Nil
              /\ l.callErr.kind = "error"

\* C19: with several calls running on one client at the same time, the
\* client stays as NewClient built it, and every call has made the attempts
\* and, once it has returned, has the outcome it has when run alone against
\* the outcomes its own attempts got, whatever the other calls did meanwhile.
C19_CallsDoNotInterfere ==
    /\ client = NewClient(config).client
    /\ \A i \in CallIDs :
           IF calls[i].pc = "returned"
           THEN /\ RunAlone(client.retry.maxRetries, calls[i].seen).done
                /\ SameOutcome(calls[i], RunAlone(client.retry.maxRetries, calls[i].seen))
           ELSE /\ ~RunAlone(client.retry.maxRetries, calls[i].seen).done
                /\ calls[i].doCalls = Len(calls[i].seen)
                                      + (IF calls[i].pc = "attempting" THEN 1 ELSE 0)
                /\ calls[i].pc # "idle" => calls[i].attempt = calls[i].doCalls - 1

\* The first call has returned the 404 of its third attempt while the
\* second one, started before, waits after its first attempt.
C19_Witness ==
    /\ calls[1].pc = "returned"
    /\ calls[1].doCalls = 3
    /\ calls[1].ret.resp # NoResponse
    /\ calls[1].ret.resp.StatusCode = 404
    /\ calls[1].callErr.kind = "NotFoundError"
    /\ calls[2].pc = "sleeping"
    /\ calls[2].attempt = 0
    /\ calls[2].lastErr # Nil

\* C21: for every resource type, a Delete whose API call was answered 404
\* reports no diagnostic; a Delete whose API call got another status outside
\* 2xx, or no response, or ended in another error, reports one error
\* diagnostic; a Delete whose call succeeded reports none.
C21_DeleteNotFoundIsGone ==
    (fnOut.done /\ fnIn.fn \in ResourceTypes)
    => /\ (fnIn.resp # NoResponse /\ fnIn.resp.StatusCode = 404)
          => fnOut.diags = <<>>
       /\ (fnIn.resp = NoResponse
           \/ (~Is2xx(fnIn.resp.StatusCode) /\ fnIn.resp.StatusCode # 404))
          => /\ fnOut.err # Nil
             /\ Len(fnOut.diags) = 1
             /\ fnOut.diags[1].severity = "error"
       /\ (fnOut.err # Nil /\ (fnIn.resp = NoResponse \/ fnIn.resp.StatusCode # 404))
          => Len(fnOut.diags) = 1
       /\ fnOut.err = Nil => fnOut.diags = <<>>

\* The Delete of a bundle attachment got a 404 with a request ID: its client
\* returned a wrapped not-found error and it reported nothing.
C21_Witness ==
    /\ fnOut.done
    /\ fnIn.fn = "BundleAttachmentResource"
    /\ fnIn.resp # NoResponse
    /\ fnIn.resp.StatusCode = 404
    /\ fnOut.err # Nil
    /\ fnOut.err.wrap = <<"detach bundle">>
    /\ fnOut.diags = <<>>

\* Whether the character c occurs in s.
Occurs(c, s) == \E k \in 1..Len(s) : s[k] = c

\* What is before the first ":" of s, which has one.
BeforeColon(s) ==
    SubSeq(s, 1, (CHOOSE k \in 1..Len(s) : s[k] = ":" /\ ~Occurs(":", SubSeq(s, 1, k - 1))) - 1)

\* C22: importing the composite ID Create wrote for a stack_id and a
\* bundle_id sets a state with that stack_id and that bundle_id; importing an
\* ID without ":", or with nothing before or nothing after its first ":",
\* reports an error and sets no state.
C22_ImportRoundTrip ==
    /\ (fnOut.done /\ fnIn.fn = "CreateImport")
       => /\ fnOut.diags = <<>>
          /\ fnOut.state # NoState
          /\ fnOut.state.stack_id = fnIn.plan.stack_id
          /\ fnOut.state.bundle_id = fnIn.plan.bundle_id
    /\ (/\ fnOut.done
        /\ fnIn.fn = "ImportState"
        /\ \/ ~Occurs(":", fnIn.id)
           \/ BeforeColon(fnIn.id) = <<>>
           \/ Len(BeforeColon(fnIn.id)) + 1 = Len(fnIn.id))
       => /\ Len(fnOut.diags) = 1
          /\ fnOut.diags[1].severity = "error"
          /\ fnOut.state = NoState

\* Where the retry loop of the call is, in the words of the specification:
\* a call that has returned has "succeeded" (a 2xx response), been
\* "answered" (another response), is "exhausted" (the error after the last
\* attempt got a retryable status) or has "failed" (a transport or context
\* error).  A call not started yet is about to attempt.
Phase ==
    CASE pc = "idle" -> "attempting"
      [] pc = "attempting" -> "attempting"
      [] pc = "sleeping" -> "waiting"
      [] pc = "panicked" -> "panicked"
      [] pc = "returned" ->
            IF ret.err = Nil
            THEN IF Is2xx(ret.resp.StatusCode) THEN "succeeded" ELSE "answered"
            ELSE IF ret.err.kind = "APIError" THEN "exhausted"
            ELSE "failed"

\* The transitions the specification lists, the latest attempt having got
\* doResult'.
ListedTransition ==
    \/ /\ Phase = "attempting" /\ Phase' = "succeeded"
       /\ doResult'.err = Nil
       /\ Is2xx(doResult'.resp.StatusCode)
    \/ /\ Phase = "attempting" /\ Phase' = "waiting"
       /\ \/ doResult'.err # Nil
          \/ doResult'.resp.StatusCode \in {429, 502, 503, 504}
       /\ attempt' < client.retry.maxRetries
    \/ /\ Phase = "waiting" /\ Phase' = "attempting"
       /\ woken = "timer"
       /\ attempt' = attempt + 1
    \/ /\ Phase = "waiting" /\ Phase' = "failed"
       /\ ctxErr # "nil"
    \/ /\ Phase = "attempting" /\ Phase' = "exhausted"
       /\ doResult'.err = Nil
       /\ doResult'.resp.StatusCode \in {429, 502, 503, 504}
       /\ attempt' = client.retry.maxRetries

\* The transitions the specification does not list: a response with a
\* status that is neither 2xx nor retryable is handed back, a transport
\* failure ends the call when the context is done or no retry is left, and a
\* panic of retryDelay ends it.
UnlistedTransition ==
    \/ /\ Phase = "attempting" /\ Phase' = "answered"
       /\ doResult'.err = Nil
       /\ ~Is2xx(doResult'.resp.StatusCode)
       /\ doResult'.resp.StatusCode \notin {429, 502, 503, 504}
    \/ /\ Phase = "attempting" /\ Phase' = "failed"
       /\ doResult'.err # Nil
       /\ ctxErr # "nil" \/ attempt' = client.retry.maxRetries
    \/ /\ Phase = "attempting" /\ Phase' = "panicked"

\* No attempt and no wait follows.
StaysFinal == Phase' = Phase /\ doCalls' = doCalls /\ waits' = waits /\ ret' = ret

RECURSIVE ResponseStatuses(_)
ResponseStatuses(h) ==
    IF h = <<>> THEN <<>>
    ELSE IF Head(h).err THEN ResponseStatuses(Tail(h))
    ELSE <<Head(h).StatusCode>> \o ResponseStatuses(Tail(h))

\* C24: every response received has a body, and wherever the call is (in the
\* next attempt, in a wait, returned with a response or with an error) no
\* body of a response it received is open: the body of a response with a
\* retryable status was closed before the wait or the exhausted error, the
\* body of the response handed back by the time the operation returned.
C24_NoBodyLeftOpen ==
    /\ [i \in 1..Len(bodies) |-> bodies[i].StatusCode] = ResponseStatuses(history)
    /\ \A i \in 1..Len(bodies) : ~bodies[i].open

\* An operation returned after a 503, a transport failure and a 404: both
\* bodies are closed.
C24_Witness ==
    /\ pc = "returned"
    /\ ret.err = Nil
    /\ Len(history) = 3
    /\ history[2].err
    /\ bodies = <<[StatusCode |-> 503, open |-> FALSE], [StatusCode |-> 404, open |-> FALSE]>>

\* s is a decimal integer: digits after an optional sign.
IsInteger(s) ==
    /\ Len(s) > 0
    /\ Len(s) > 1 \/ IsDigit(s[1])
    /\ s[1] \in {"+", "-"} \/ IsDigit(s[1])
    /\ \A i \in 2..Len(s) : IsDigit(s[i])

\* A Retry-After value that cannot be honoured: absent (the empty string),
\* not an integer, negative, or zero.
NotHonourable(s) ==
    \/ s = <<>>
    \/ ~IsInteger(s)
    \/ s[1] = "-"
    \/ \A i \in 1..Len(s) : s[i] \in {"+", "0"}

\* C25: for a 502, 503 or 504 response, with or without a Retry-After
\* header, for no response, and for a 429 whose Retry-After is absent, zero,
\* negative or not an integer, retryDelay returns the exponential backoff
\* with jitter: a delay within [d/2 + d/4, d/2 + d/4 + d/2) for
\* d = min(baseDelay * 2^attempt, maxDelay).
C25_BackoffFallback ==
    (/\ fnOut.done
     /\ fnIn.fn = "retryDelay"
     /\ \/ fnIn.resp = NoResponse
        \/ fnIn.resp.StatusCode \in {502, 503, 504}
        \/ /\ fnIn.resp.StatusCode = 429
           /\ NotHonourable(IF "Retry-After" \in DOMAIN fnIn.resp.Header
                            THEN fnIn.resp.Header["Retry-After"] ELSE <<>>))
    => /\ ~fnOut.panic
       /\ InJitterRange(fnOut.delay, CappedExponential(client.retry, fnIn.attempt))

\* C26: every call that has started returns, and a call that has returned
\* has returned one outcome: a response and no error, or an error and no
\* response.
C26_OneOutcome ==
    /\ (pc = "attempting") ~> (pc = "returned")
    /\ [](pc = "returned"
          => /\ ret.resp # NoResponse \/ ret.err # Nil
             /\ ~(ret.resp # NoResponse /\ ret.err # Nil)
             /\ ret.resp = NoResponse => callErr # Nil)

\* C27: a client NewClient built has 3 retries when MaxRetries is zero or
\* negative and MaxRetries retries when it is positive, so at least one; a
\* timeout of 30 s when Timeout is zero and of Timeout otherwise; the
\* built-in user agent when UserAgent is empty and UserAgent otherwise; a
\* base delay of 500 ms and a max delay of 30 s; and the token as given.
C27_Defaults ==
    (fnOut.done /\ fnIn.fn = "NewClient" /\ fnOut.client # Nil)
    => /\ fnOut.client.retry.maxRetries
            = (IF fnIn.cfg.MaxRetries <= 0 THEN 3 ELSE fnIn.cfg.MaxRetries)
       /\ fnOut.client.retry.maxRetries >= 1
       /\ fnOut.client.timeout
            = (IF fnIn.cfg.Timeout = Zero64 THEN Seconds(30) ELSE fnIn.cfg.Timeout)
       /\ fnOut.client.userAgent
            = (IF fnIn.cfg.UserAgent = "" THEN "terraform-provider-zenfra/0.1.0"
               ELSE fnIn.cfg.UserAgent)
       /\ fnOut.client.retry.baseDelay = Mul64(I64(500), Millisecond)
       /\ fnOut.client.retry.maxDelay = Seconds(30)
       /\ fnOut.client.apiToken = fnIn.cfg.APIToken

\* NewClient built a client from a negative MaxRetries and nothing else set.
C27_Witness ==
    /\ fnOut.done
    /\ fnIn.fn = "NewClient"
    /\ fnIn.cfg.MaxRetries = -1
    /\ fnIn.cfg.Timeout = Zero64
    /\ fnIn.cfg.UserAgent = ""
    /\ fnOut.client # Nil
    /\ fnOut.client.retry.maxRetries = 3
    /\ fnOut.client.timeout = Seconds(30)

\* C28: when the attempt with index maxRetries gets a retryable status, the
\* call returns the exhausted error in that step, with no wait started; a
\* wait is only ever started after an attempt that has a successor, so the
\* waits of a call never outnumber the attempts that have a successor, and a
\* call that has returned waits no more.
C28_NoWaitAfterLastAttempt ==
    [][/\ (/\ pc = "attempting"
           /\ attempt = client.retry.maxRetries
           /\ Len(history') = Len(history) + 1
           /\ ~Last(history').err
           /\ Last(history').StatusCode \in {429, 502, 503, 504})
          => /\ pc' = "returned"
             /\ waits' = waits
             /\ waits' = client.retry.maxRetries
             /\ ret'.resp = NoResponse
             /\ ret'.err # Nil
             /\ ret'.err.kind = "APIError"
             /\ ret'.err.StatusCode = Last(history').StatusCode
       /\ pc' = "sleeping" => (attempt' < client.retry.maxRetries /\ waits' = attempt' + 1)
       /\ waits' # waits => (pc = "attempting" /\ pc' = "sleeping")
       /\ pc = "returned" => (pc' = "returned" /\ waits' = waits)]_vars

\* A client with two retries got 502, 503 and 504: it returned the exhausted
\* error after three attempts and two waits.
C28_Witness ==
    /\ pc = "returned"
    /\ client.retry.maxRetries = 2
    /\ Len(history) = 3
    /\ history[1].StatusCode = 502 /\ history[2].StatusCode = 503
    /\ history[3].StatusCode = 504
    /\ \A i \in 1..3 : ~history[i].err
    /\ ret.err # Nil
    /\ ret.err.StatusCode = 504
    /\ doCalls = 3
    /\ waits = 2

\* C29: once a call has made all its maxRetries + 1 attempts, what it
\* returned follows from the last attempt alone: when that attempt failed at
\* the transport level, its transport error, whatever the earlier attempts
\* got; when it got a retryable status, the exhausted error with that
\* status, whatever the earlier attempts got.
C29_FinalAttemptDecides ==
    Len(history) = client.retry.maxRetries + 1
    => /\ pc = "returned"
       /\ Last(history).err
          => /\ ret.resp = NoResponse
             /\ ret.err # Nil
             /\ ret.err = [doResult.err EXCEPT !.wrap = <<"executing request">>]
             /\ ret.err.kind = "error"
       /\ (~Last(history).err /\ Last(history).StatusCode \in {429, 502, 503, 504})
          => /\ ret.resp = NoResponse
             /\ ret.err # Nil
             /\ ret.err.kind = "APIError"
             /\ ret.err.StatusCode = Last(history).StatusCode
             /\ ret.err.Message
                  = <<"request failed after ">> \o DecStr(client.retry.maxRetries)
                    \o <<" retries with status ">> \o DecStr(Last(history).StatusCode)

\* A client with two retries got a 503, a transport failure and a 429: it
\* returned the exhausted error with status 429.
C29_Witness ==
    /\ pc = "returned"
    /\ client.retry.maxRetries = 2
    /\ Len(history) = 3
    /\ ~history[1].err /\ history[1].StatusCode = 503
    /\ history[2].err
    /\ ~history[3].err /\ history[3].StatusCode = 429
    /\ ret.err # Nil
    /\ ret.err.kind = "APIError"
    /\ ret.err.StatusCode = 429

\* C30: for every attempt index, when retryDelay takes the backoff branch
\* the jitter bound is positive (rand.Int64N does not panic) and the delay
\* returned is positive and at least d/2 + d/4 for
\* d = min(baseDelay * 2^attempt, maxDelay), the product taken without
\* overflow.
C30_NoOverflowBeforeCap ==
    (/\ fnOut.done
     /\ fnIn.fn = "retryDelay"
     /\ \/ fnIn.resp = NoResponse
        \/ fnIn.resp.StatusCode # 429
        \/ "Retry-After" \notin DOMAIN fnIn.resp.Header)
    => /\ ~fnOut.panic
       /\ Less64(Zero64, fnOut.delay)
       /\ LessEq64(Add64(Quo2(CappedExponential(client.retry, fnIn.attempt)),
                         Quo2(Quo2(CappedExponential(client.retry, fnIn.attempt)))),
                   fnOut.delay)

=============================================================================
